---- MODULE Spec2Model ----
(***************************************************************************)
(* Model of demos/nrf52810-codegen/src/main.rs: the RTFM application that  *)
(* glues the BLE link layer, the radio, the timer, the responder and the   *)
(* logger together (init, the RADIO and TIMER0 handlers, the idle task).   *)
(*                                                                         *)
(* Three specifications share the module:                                  *)
(*   Spec      the application: init, both handlers, idle, the log queue   *)
(*   SpecQ     one Byte Queue driven by one producer and one consumer      *)
(*   SpecAddr  the device address derivation over a set of register values *)
(***************************************************************************)
EXTENDS Integers, Sequences, FiniteSets, TLC

\* ------------------------------------------------------------------------
\* Bounds
\* ------------------------------------------------------------------------
\* rubble::link::MIN_PDU_BUF, scaled down
MIN_PDU_BUF == 2
\* total number of bytes the producer of SpecQ commits
MaxBytesQ == 6
\* capacity of the log queue
LogCap == 2
\* longest log line, in bytes
MaxLine == 1
\* total number of log bytes enqueued in a run
MaxLogBytes == 3
\* the timer values (counter readings and deadlines) are 0 .. TimeMod - 1
TimeMod == 2
\* most units of work the Responder has pending
MaxWork == 2
\* UART single-transfer limit of the drain loop, chunks(255), scaled down
ChunkLen == 1

\* ------------------------------------------------------------------------
\* Byte Queue (spec section 4.1): a ring over a fixed backing array with
\* contiguous grants.  Cursors are 0-based, buf is 1-based.  A cell holding 0
\* is a byte that was never committed (reserved or stale garbage).
\* ------------------------------------------------------------------------
NoGrant == [start |-> 0, len |-> 0, held |-> FALSE]

Grant(s, n) == [start |-> s, len |-> n, held |-> TRUE]

\* create(capacity): empty ring
create(cap) ==
  [buf |-> [i \in 1..cap |-> 0], write |-> 0, read |-> 0, last |-> cap]

Cap(q) == Len(q.buf)

\* grantStart wrapping to the start without looking at the read cursor
grantStartNoReadCheck(q, sz) ==
  IF q.write < q.read
  THEN IF q.write + sz < q.read THEN q.write ELSE -1
  ELSE IF q.write + sz <= Cap(q) THEN q.write ELSE 0

\* where a grant of sz contiguous bytes starts, or -1 (InsufficientSpace)
grantStart(q, sz) ==
  IF q.write < q.read
  THEN IF q.write + sz < q.read THEN q.write ELSE -1
  ELSE IF q.write + sz <= Cap(q) THEN q.write
       ELSE IF sz < q.read THEN 0 ELSE -1

\* grant(n): the reserved region is the producer's to scribble on
grant(q, sz) ==
  LET s == grantStart(q, sz) IN
  [q EXCEPT !.buf = [i \in 1..Cap(q) |->
                       IF i > s /\ i <= s + sz THEN 0 ELSE q.buf[i]]]

\* commit(used): publish the first `used` bytes of the grant g, holding data
commit(q, g, used, data) ==
  LET newWrite == g.start + used IN
  [buf   |-> [i \in 1..Cap(q) |->
                IF i > g.start /\ i <= g.start + used
                THEN data[i - g.start] ELSE q.buf[i]],
   write |-> newWrite,
   read  |-> q.read,
   last  |-> IF newWrite < q.write /\ q.write # Cap(q) THEN q.write ELSE q.last]

\* read(): the read cursor wraps when it reached the watermark
readStart(q) ==
  IF q.read = q.last /\ q.write < q.read THEN 0 ELSE q.read

readLen(q) ==
  LET r == readStart(q) IN
  IF q.write < r THEN q.last - r ELSE q.write - r

read(q) == [q EXCEPT !.read = readStart(q)]

\* release(used): advance the read cursor
release(q, used) == [q EXCEPT !.read = q.read + used]

\* the bytes of a region of the backing array
Region(q, g) == [i \in 1..g.len |-> q.buf[g.start + i]]

\* the committed, not yet released bytes, oldest first
Contents(q) ==
  LET r == readStart(q) IN
  IF q.write < r
  THEN SubSeq(q.buf, r + 1, q.last) \o SubSeq(q.buf, 1, q.write)
  ELSE SubSeq(q.buf, r + 1, q.write)

\* ids First+1 .. First+n, the n bytes produced after First
Fresh(first, n) == [i \in 1..n |-> first + i]

\* ------------------------------------------------------------------------
\* State
\* ------------------------------------------------------------------------
VARIABLES
  \* --- the application (Spec) ---
  logFeature,     \* cfg!(feature = "log")
  ipc,            \* position of init
  failure,        \* the call whose Err an unwrap turned into a panic ("none": running)
  hfclk,          \* CLOCK: "off", "starting", "started"
  published,      \* resource slots written by init
  unmasked,       \* interrupts are enabled (init has returned)
  timerArmed,     \* deadline configure_interrupt was last called with
  timerPending,   \* compare event flag (is_interrupt_pending)
  radioCfg,       \* receiver configuration of the radio
  engDeadline,    \* deadline returned by the latest engine call
  hctx,           \* interrupt handler executing: "none", "RADIO", "TIMER0"
  hpc,            \* its position
  hcmd,           \* its local: next_update / cmd
  htrace,         \* calls it has made so far in this execution
  idlepc,         \* position of the idle task
  igrant,         \* idle: the read grant it holds
  ichunk,         \* idle: bytes of the grant written to the UART so far
  uart,           \* bytes idle has written to SERIAL
  iterProc,       \* idle: process_one calls in the current loop iteration
  sawWork,        \* idle: result of has_work() in the current iteration
  drained,        \* idle: the drain step ran since the last process_one
  lq,             \* the log queue
  logged,         \* number of log bytes enqueued (bytes numbered 1, 2, ..)
  dropped,        \* some log line was dropped
  work,           \* units of work pending in the Responder
  holder,         \* which object holds each queue end
  \* --- device address (Spec, SpecAddr) ---
  ficr,           \* FICR registers DEVICEADDR[0], DEVICEADDR[1], DEVICEADDRTYPE
  device_address, \* the DeviceAddress init built
  prev_address,   \* the one built before it (SpecAddr derives repeatedly)
  \* SpecQ: one Byte Queue, its producer and its consumer
  bq,        \* the queue
  pgrant,    \* the producer's outstanding write grant
  cgrant,    \* the consumer's outstanding read grant
  produced,  \* number of bytes committed so far (bytes are numbered 1, 2, ..)
  consumed,  \* number of bytes released so far
  qres       \* result of the last queue call

qVars == <<bq, pgrant, cgrant, produced, consumed, qres>>

addrVars == <<ficr, device_address, prev_address>>

timerVars == <<timerArmed, timerPending>>

handlerVars == <<hctx, hpc, hcmd, htrace>>

idleVars == <<idlepc, igrant, ichunk, uart, iterProc, sawWork, drained>>

logVars == <<lq, logged, dropped>>

initVars == <<ipc, hfclk, published, unmasked, holder>>

appVars == <<logFeature, failure, initVars, timerVars, radioCfg, engDeadline,
             handlerVars, idleVars, logVars, work>>

vars == <<appVars, addrVars, qVars>>

\* The process panicked: some `.unwrap()` met an Err (panic_semihosting
\* never returns).
aborted == failure # "none"

\* ------------------------------------------------------------------------
\* Device address (init, lines 95-112).  A 32-bit register value is kept as
\* its two 16-bit halves [h, l].
\* ------------------------------------------------------------------------
U32(h, l) == [h |-> h, l |-> l]

\* `x as u16`: the low 16 bits
as_u16(v) == v.l

\* LittleEndian::write_u32 with the most significant byte first
write_u32BigEndian(buf, v) ==
  [i \in 1..Len(buf) |->
     IF i = 1 THEN v.h \div 256
     ELSE IF i = 2 THEN v.h % 256
     ELSE IF i = 3 THEN v.l \div 256
     ELSE IF i = 4 THEN v.l % 256
     ELSE buf[i]]

\* LittleEndian::write_u32(&mut buf, v)
write_u32(buf, v) ==
  [i \in 1..Len(buf) |->
     IF i = 1 THEN v.l % 256
     ELSE IF i = 2 THEN v.l \div 256
     ELSE IF i = 3 THEN v.h % 256
     ELSE IF i = 4 THEN v.h \div 256
     ELSE buf[i]]

\* LittleEndian::write_u16(&mut buf[off..], n)
write_u16(buf, off, n) ==
  [i \in 1..Len(buf) |->
     IF i = off + 1 THEN n % 256
     ELSE IF i = off + 2 THEN n \div 256
     ELSE buf[i]]

\* deviceaddrtype().is_public(): the field is bit 0 of the register, 0 = public
is_public(t) == t % 2 = 0

NoAddress == [bytes |-> <<>>, kind |-> "none"]

\* DeviceAddress::new(devaddr, devaddr_type) as init computes its arguments
DeviceAddress(f) ==
  LET devaddr_lo == f.lo
      devaddr_hi == as_u16(f.hi)
      devaddr    == write_u16(write_u32(<<0, 0, 0, 0, 0, 0>>, devaddr_lo),
                              4, devaddr_hi)
  IN  [bytes |-> devaddr,
       kind  |-> IF is_public(f.type) THEN "Public" ELSE "Random"]

\* register contents of the running device: 00:11:22:33:44:55, random
DeviceFicr == [lo |-> U32(13090, 4352), hi |-> U32(0, 21828), type |-> 1]

InitAddrVars ==
  /\ ficr = DeviceFicr
  /\ device_address = NoAddress
  /\ prev_address = NoAddress

\* ------------------------------------------------------------------------
\* The application: initial state
\* ------------------------------------------------------------------------
Deadlines == 0..(TimeMod - 1)

RadioCfgs == {"rx_adv", "rx_data"}

\* counter values BLE_LL.timer().now() may read
Readings == {0, 1}

NoCmd == [radio |-> "none", next_update |-> -1]

Resources == {"RADIO", "BLE_LL", "BLE_R", "SERIAL", "LOG_SINK"}

\* order of the assignments at the end of init (lines 145-149)
PublishOrder == <<"RADIO", "BLE_LL", "BLE_R", "SERIAL", "LOG_SINK">>

QueueEnds == {"tx", "tx_cons", "rx_prod", "rx", "log_prod", "log_sink"}

InitAppVars ==
  /\ ipc = "hfclkstart"
  /\ failure = "none"
  /\ hfclk = "off"
  /\ published = {}
  /\ unmasked = FALSE
  /\ timerArmed = -1
  /\ timerPending = FALSE
  /\ radioCfg = "none"
  /\ engDeadline = -1
  /\ hctx = "none"
  /\ hpc = "none"
  /\ hcmd = NoCmd
  /\ htrace = <<>>
  /\ idlepc = "loop"
  /\ igrant = NoGrant
  /\ ichunk = 0
  /\ uart = <<>>
  /\ iterProc = 0
  /\ sawWork = FALSE
  /\ drained = FALSE
  /\ lq = create(LogCap)
  /\ logged = 0
  /\ dropped = FALSE
  /\ work = 0
  /\ holder = [e \in QueueEnds |-> "none"]

\* capacity of the TX/RX queues without the factor two
PayloadQueueCapNoDouble == MIN_PDU_BUF

\* capacity of the TX/RX queues: bbq![MIN_PDU_BUF * 2] (lines 121-122)
PayloadQueueCap == MIN_PDU_BUF * 2

InitQVars ==
  /\ bq = create(PayloadQueueCap)
  /\ pgrant = NoGrant
  /\ cgrant = NoGrant
  /\ produced = 0
  /\ consumed = 0
  /\ qres = "none"

Init ==
  /\ logFeature \in BOOLEAN
  /\ InitAppVars
  /\ InitAddrVars
  /\ InitQVars

\* ------------------------------------------------------------------------
\* Logger (spec section 4.2): a line that does not fit is dropped
\* ------------------------------------------------------------------------
\* lengths of the line a call may log: 0 is "logs nothing"; with logging
\* compiled out every line is dropped (spec section 7)
LineLens ==
  IF holder["log_prod"] = "Logger" /\ logFeature
  THEN {n \in 0..MaxLine : logged + n <= MaxLogBytes}
  ELSE {0}

Log(n) ==
  IF n = 0
  THEN UNCHANGED logVars
  ELSE IF grantStart(lq, n) >= 0
       THEN /\ lq' = commit(grant(lq, n), Grant(grantStart(lq, n), n), n,
                            Fresh(logged, n))
            /\ logged' = logged + n
            /\ UNCHANGED dropped
       ELSE /\ dropped' = TRUE
            /\ UNCHANGED <<lq, logged>>

\* the queue ends an object holds
EndsOf(obj) == {e \in QueueEnds : holder[e] = obj}

\* ------------------------------------------------------------------------
\* Hardware
\* ------------------------------------------------------------------------
\* the crystal oscillator starts after tasks_hfclkstart
HfclkStarted ==
  /\ hfclk = "starting"
  /\ hfclk' = "started"
  /\ UNCHANGED <<logFeature, failure, ipc, published, unmasked, holder,
                 timerVars, radioCfg, engDeadline, handlerVars, idleVars,
                 logVars, work, addrVars, qVars>>

TimerRunning == ipc \notin {"hfclkstart", "hfclkwait", "timer_init"}

\* the TIMER0 counter reaches the armed deadline: the compare event is raised
CompareEvent ==
  /\ ~aborted
  /\ TimerRunning
  /\ timerArmed >= 0
  /\ ~timerPending
  /\ timerPending' = TRUE
  /\ UNCHANGED <<logFeature, failure, initVars, timerArmed, radioCfg,
                 engDeadline, handlerVars, idleVars, logVars, work, addrVars,
                 qVars>>

\* ------------------------------------------------------------------------
\* init (lines 59-150), one action per statement
\* ------------------------------------------------------------------------
InitFrame ==
  UNCHANGED <<logFeature, unmasked, timerPending, radioCfg, hctx, hpc,
              htrace, idleVars, work, qVars, ficr, prev_address>>

\* an error that is dropped instead of unwrapped: init goes on
UnwrapIgnored(ok, next) ==
  ipc' = next /\ UNCHANGED failure

\* an unwrap() on `ok`: continue at `next` or panic
Unwrap(ok, next) ==
  IF ok THEN ipc' = next /\ UNCHANGED failure
        ELSE failure' = ipc /\ UNCHANGED ipc

InitStep(at) == ~aborted /\ ipc = at

\* lines 67-70
InitHfclkStart ==
  /\ InitStep("hfclkstart")
  /\ hfclk' = "starting"
  /\ ipc' = "hfclkwait"
  /\ UNCHANGED <<failure, published, holder, timerArmed, engDeadline, hcmd,
                 logVars, device_address>>
  /\ InitFrame

\* line 71: while events_hfclkstarted == 0 {}
InitHfclkWait ==
  /\ InitStep("hfclkwait")
  /\ hfclk = "started"
  /\ ipc' = "timer_init"
  /\ UNCHANGED <<failure, hfclk, published, holder, timerArmed, engDeadline,
                 hcmd, logVars, device_address>>
  /\ InitFrame

\* line 74
InitTimer ==
  /\ InitStep("timer_init")
  /\ ipc' = "serial"
  /\ UNCHANGED <<failure, hfclk, published, holder, timerArmed, engDeadline,
                 hcmd, logVars, device_address>>
  /\ InitFrame

\* lines 76-93: writeln!(serial, ..).unwrap()
InitSerial(ok) ==
  /\ InitStep("serial")
  /\ Unwrap(ok, "devaddr")
  /\ UNCHANGED <<hfclk, published, holder, timerArmed, engDeadline, hcmd,
                 logVars, device_address>>
  /\ InitFrame

\* lines 95-112
InitDevaddr ==
  /\ InitStep("devaddr")
  /\ device_address' = DeviceAddress(ficr)
  /\ ipc' = "radio_new"
  /\ UNCHANGED <<failure, hfclk, published, holder, timerArmed, engDeadline,
                 hcmd, logVars>>
  /\ InitFrame

\* line 114
InitRadio ==
  /\ InitStep("radio_new")
  /\ ipc' = "logger_init"
  /\ UNCHANGED <<failure, hfclk, published, holder, timerArmed, engDeadline,
                 hcmd, logVars, device_address>>
  /\ InitFrame

\* line 116: the Logger keeps the producer, init gets the consumer
InitLogger ==
  /\ InitStep("logger_init")
  /\ holder' = [holder EXCEPT !["log_prod"] = "Logger", !["log_sink"] = "init"]
  /\ ipc' = "queue_tx"
  /\ UNCHANGED <<failure, hfclk, published, timerArmed, engDeadline, hcmd,
                 logVars, device_address>>
  /\ InitFrame

\* line 121: let (tx, tx_cons) = queue::create(bbq![..].unwrap())
InitQueueTx(ok) ==
  /\ InitStep("queue_tx")
  /\ Unwrap(ok, "queue_rx")
  /\ holder' = IF ok THEN [holder EXCEPT !["tx"] = "init", !["tx_cons"] = "init"]
                     ELSE holder
  /\ UNCHANGED <<hfclk, published, timerArmed, engDeadline, hcmd, logVars, device_address>>
  /\ InitFrame

\* line 122: let (rx_prod, rx) = queue::create(bbq![..].unwrap())
InitQueueRx(ok) ==
  /\ InitStep("queue_rx")
  /\ Unwrap(ok, "ll_new")
  /\ holder' = IF ok THEN [holder EXCEPT !["rx_prod"] = "init", !["rx"] = "init"]
                     ELSE holder
  /\ UNCHANGED <<hfclk, published, timerArmed, engDeadline, hcmd, logVars, device_address>>
  /\ InitFrame

\* line 125
InitLinkLayer ==
  /\ InitStep("ll_new")
  /\ ipc' = "resp_new"
  /\ UNCHANGED <<failure, hfclk, published, holder, timerArmed, engDeadline,
                 hcmd, logVars, device_address>>
  /\ InitFrame

\* lines 127-131 handing the Responder the ends meant for the link layer
InitResponderCrossed ==
  /\ InitStep("resp_new")
  /\ holder' = [holder EXCEPT !["rx_prod"] = "Responder",
                              !["tx_cons"] = "Responder"]
  /\ ipc' = "start_advertise"
  /\ UNCHANGED <<failure, hfclk, published, timerArmed, engDeadline, hcmd,
                 logVars, device_address>>
  /\ InitFrame

\* lines 127-131: Responder::new(tx, rx, ..)
InitResponder ==
  /\ InitStep("resp_new")
  /\ holder' = [holder EXCEPT !["tx"] = "Responder", !["rx"] = "Responder"]
  /\ ipc' = "start_advertise"
  /\ UNCHANGED <<failure, hfclk, published, timerArmed, engDeadline, hcmd,
                 logVars, device_address>>
  /\ InitFrame

\* lines 134-142: ll.start_advertise(.., &mut radio, tx_cons, rx_prod).unwrap()
\* returns the first deadline d or an error; the engine may log a line
InitStartAdvertise(ok, d, n) ==
  /\ InitStep("start_advertise")
  /\ Unwrap(ok, "configure_interrupt")
  /\ holder' = [holder EXCEPT !["tx_cons"] = "LinkLayer",
                              !["rx_prod"] = "LinkLayer"]
  /\ engDeadline' = IF ok THEN d ELSE engDeadline
  /\ hcmd' = IF ok THEN [radio |-> "none", next_update |-> d] ELSE hcmd
  /\ Log(n)
  /\ UNCHANGED <<hfclk, published, timerArmed, device_address>>
  /\ InitFrame

\* line 143 arming the timer with a fixed first deadline
InitConfigureInterruptFixed ==
  /\ InitStep("configure_interrupt")
  /\ timerArmed' = 0
  /\ ipc' = "publish"
  /\ UNCHANGED <<failure, hfclk, published, holder, engDeadline, hcmd, logVars, device_address>>
  /\ InitFrame

\* line 143: ll.timer().configure_interrupt(next_update)
InitConfigureInterrupt ==
  /\ InitStep("configure_interrupt")
  /\ timerArmed' = hcmd.next_update
  /\ ipc' = "publish"
  /\ UNCHANGED <<failure, hfclk, published, holder, engDeadline, hcmd, logVars, device_address>>
  /\ InitFrame

\* lines 145-149: the next resource slot is written
InitPublish ==
  /\ InitStep("publish")
  /\ LET r == PublishOrder[Cardinality(published) + 1] IN
       /\ published' = published \cup {r}
       /\ holder' = IF r = "LOG_SINK"
                    THEN [holder EXCEPT !["log_sink"] = "LOG_SINK"]
                    ELSE holder
       /\ ipc' = IF Cardinality(published) + 1 = Len(PublishOrder)
                 THEN "return" ELSE "publish"
  /\ UNCHANGED <<failure, hfclk, timerArmed, engDeadline, hcmd, logVars, device_address>>
  /\ InitFrame

\* line 150: init returns and the framework enables interrupts and starts idle
InitReturn ==
  /\ InitStep("return")
  /\ ipc' = "done"
  /\ unmasked' = TRUE
  /\ hcmd' = NoCmd
  /\ UNCHANGED <<logFeature, failure, hfclk, published, holder, timerVars,
                 radioCfg, engDeadline, hctx, hpc, htrace, idleVars, logVars,
                 work, addrVars, qVars>>

\* ------------------------------------------------------------------------
\* Interrupt handlers (lines 152-175).  Both have the same priority, so one
\* starts only when no handler is executing; init runs with interrupts masked.
\* ------------------------------------------------------------------------
Call(op, arg, ret, radio) == [op |-> op, arg |-> arg, ret |-> ret, radio |-> radio]

\* a handler may be dispatched as soon as the timer interrupt is armed
MayDispatchWhenArmed == ~aborted /\ timerArmed >= 0 /\ hctx = "none"

\* a handler may be dispatched
MayDispatch == ~aborted /\ unmasked /\ hctx = "none"

HandlerFrame ==
  UNCHANGED <<logFeature, failure, initVars, idleVars, addrVars, qVars>>

HandlerStep(h, at) == ~aborted /\ hctx = h /\ hpc = at

\* what the engine may do to the Responder's pending work during a call
WorkAfter == {w \in {work, work + 1} : w <= MaxWork}

\* the RADIO interrupt is taken
RADIOEnter ==
  /\ MayDispatch
  /\ hctx' = "RADIO"
  /\ hpc' = "recv_interrupt"
  /\ htrace' = <<>>
  /\ UNCHANGED <<hcmd, timerArmed, timerPending, radioCfg, engDeadline, logVars,
                 work>>
  /\ HandlerFrame

\* lines 154-156: RADIO.recv_interrupt(BLE_LL.timer().now(), &mut BLE_LL)
\* now() reads the counter value t; recv_interrupt returns deadline d; the
\* radio driver may reconfigure its receiver (cfg); the engine may queue work
\* for the Responder (w) and log a line (n)
RADIORecvInterrupt(t, d, cfg, w, n) ==
  /\ HandlerStep("RADIO", "recv_interrupt")
  /\ hcmd' = [radio |-> "none", next_update |-> d]
  /\ engDeadline' = d
  /\ radioCfg' = cfg
  /\ work' = w
  /\ Log(n)
  /\ htrace' = htrace \o <<Call("now", -1, t, "none"),
                           Call("recv_interrupt", t, d, "none")>>
  /\ hpc' = "configure_interrupt"
  /\ UNCHANGED <<hctx, timerArmed, timerPending>>
  /\ HandlerFrame

\* RADIO without line 157: the timer keeps the deadline armed before
RADIOConfigureInterruptSkipped ==
  /\ HandlerStep("RADIO", "configure_interrupt")
  /\ hpc' = "ret"
  /\ UNCHANGED <<hctx, hcmd, htrace, timerArmed, timerPending, radioCfg,
                 engDeadline, logVars, work>>
  /\ HandlerFrame

\* line 157 arming the timer with the time read at entry
RADIOConfigureInterruptNow ==
  /\ HandlerStep("RADIO", "configure_interrupt")
  /\ timerArmed' = htrace[1].ret
  /\ htrace' = Append(htrace, Call("configure_interrupt", htrace[1].ret, -1, "none"))
  /\ hpc' = "ret"
  /\ UNCHANGED <<hctx, hcmd, timerPending, radioCfg, engDeadline, logVars, work>>
  /\ HandlerFrame

\* line 157: BLE_LL.timer().configure_interrupt(next_update)
RADIOConfigureInterrupt ==
  /\ HandlerStep("RADIO", "configure_interrupt")
  /\ timerArmed' = hcmd.next_update
  /\ htrace' = Append(htrace, Call("configure_interrupt", hcmd.next_update, -1, "none"))
  /\ hpc' = "ret"
  /\ UNCHANGED <<hctx, hcmd, timerPending, radioCfg, engDeadline, logVars, work>>
  /\ HandlerFrame

\* the TIMER0 interrupt is taken (for the compare event or another event of
\* the peripheral)
TIMER0Enter ==
  /\ MayDispatch
  /\ hctx' = "TIMER0"
  /\ hpc' = "is_interrupt_pending"
  /\ htrace' = <<>>
  /\ UNCHANGED <<hcmd, timerArmed, timerPending, radioCfg, engDeadline, logVars,
                 work>>
  /\ HandlerFrame

\* lines 162-165 without the early return
TIMER0CheckPendingNoReturn ==
  /\ HandlerStep("TIMER0", "is_interrupt_pending")
  /\ htrace' = Append(htrace, Call("is_interrupt_pending", -1,
                                   IF timerPending THEN 1 ELSE 0, "none"))
  /\ hpc' = "clear_interrupt"
  /\ UNCHANGED <<hctx, hcmd, timerArmed, timerPending, radioCfg, engDeadline,
                 logVars, work>>
  /\ HandlerFrame

\* lines 162-165: if !timer.is_interrupt_pending() { return; }
TIMER0CheckPending ==
  /\ HandlerStep("TIMER0", "is_interrupt_pending")
  /\ htrace' = Append(htrace, Call("is_interrupt_pending", -1,
                                   IF timerPending THEN 1 ELSE 0, "none"))
  /\ hpc' = IF timerPending THEN "clear_interrupt" ELSE "ret"
  /\ UNCHANGED <<hctx, hcmd, timerArmed, timerPending, radioCfg, engDeadline,
                 logVars, work>>
  /\ HandlerFrame

\* line 166: timer.clear_interrupt()
TIMER0ClearInterrupt ==
  /\ HandlerStep("TIMER0", "clear_interrupt")
  /\ timerPending' = FALSE
  /\ htrace' = Append(htrace, Call("clear_interrupt", -1, -1, "none"))
  /\ hpc' = "update"
  /\ UNCHANGED <<hctx, hcmd, timerArmed, radioCfg, engDeadline, logVars, work>>
  /\ HandlerFrame

\* line 168: let cmd = BLE_LL.update(&mut *RADIO)
\* returns cmd = {radio: cfg, next_update: d}; the engine may queue work for
\* the Responder (w) and log a line (n)
TIMER0Update(d, cfg, w, n) ==
  /\ HandlerStep("TIMER0", "update")
  /\ hcmd' = [radio |-> cfg, next_update |-> d]
  /\ engDeadline' = d
  /\ work' = w
  /\ Log(n)
  /\ htrace' = Append(htrace, Call("update", -1, d, cfg))
  /\ hpc' = "configure_receiver"
  /\ UNCHANGED <<hctx, timerArmed, timerPending, radioCfg>>
  /\ HandlerFrame

\* line 169 leaving the receiver as it was configured before the update
TIMER0ConfigureReceiverStale ==
  /\ HandlerStep("TIMER0", "configure_receiver")
  /\ radioCfg' = radioCfg
  /\ htrace' = Append(htrace, Call("configure_receiver", -1, -1, radioCfg))
  /\ hpc' = "configure_interrupt"
  /\ UNCHANGED <<hctx, hcmd, timerArmed, timerPending, engDeadline, logVars, work>>
  /\ HandlerFrame

\* line 169: RADIO.configure_receiver(cmd.radio)
TIMER0ConfigureReceiver ==
  /\ HandlerStep("TIMER0", "configure_receiver")
  /\ radioCfg' = hcmd.radio
  /\ htrace' = Append(htrace, Call("configure_receiver", -1, -1, hcmd.radio))
  /\ hpc' = "configure_interrupt"
  /\ UNCHANGED <<hctx, hcmd, timerArmed, timerPending, engDeadline, logVars, work>>
  /\ HandlerFrame

\* lines 171-174 re-arming with the deadline that was armed before
TIMER0ConfigureInterruptStale ==
  /\ HandlerStep("TIMER0", "configure_interrupt")
  /\ timerArmed' = timerArmed
  /\ htrace' = Append(htrace, Call("configure_interrupt", timerArmed, -1, "none"))
  /\ hpc' = "ret"
  /\ UNCHANGED <<hctx, hcmd, timerPending, radioCfg, engDeadline, logVars, work>>
  /\ HandlerFrame

\* lines 171-174: BLE_LL.timer().configure_interrupt(cmd.next_update)
TIMER0ConfigureInterrupt ==
  /\ HandlerStep("TIMER0", "configure_interrupt")
  /\ timerArmed' = hcmd.next_update
  /\ htrace' = Append(htrace, Call("configure_interrupt", hcmd.next_update, -1, "none"))
  /\ hpc' = "ret"
  /\ UNCHANGED <<hctx, hcmd, timerPending, radioCfg, engDeadline, logVars, work>>
  /\ HandlerFrame

\* the handler returns (lines 158, 164, 175)
HandlerReturn ==
  /\ ~aborted
  /\ hctx # "none"
  /\ hpc = "ret"
  /\ hctx' = "none"
  /\ hpc' = "none"
  /\ hcmd' = NoCmd
  /\ htrace' = <<>>
  /\ UNCHANGED <<timerArmed, timerPending, radioCfg, engDeadline, logVars, work>>
  /\ HandlerFrame

\* ------------------------------------------------------------------------
\* idle (lines 177-195): runs once init has returned, whenever no handler is
\* executing; a handler may preempt it between any two of its steps
\* ------------------------------------------------------------------------
IdleFrame ==
  UNCHANGED <<logFeature, initVars, timerVars, radioCfg, engDeadline,
              handlerVars, addrVars, qVars>>

\* idle at the priority of the handlers: it runs on while one is executing
IdleStepDuringHandler(at) == ~aborted /\ unmasked /\ idlepc = at

\* idle (priority 0) runs only while no handler (priority 1) is executing
IdleStep(at) == ~aborted /\ unmasked /\ hctx = "none" /\ idlepc = at

Min(a, b) == IF a < b THEN a ELSE b

\* grant.buf() written in one piece: all the bytes after `done`
chunkWhole(buf, done) == SubSeq(buf, done + 1, Len(buf))

\* grant.buf().chunks(255): the chunk that starts after `done` bytes
chunk(buf, done) == SubSeq(buf, done + 1, Min(done + ChunkLen, Len(buf)))

\* line 180: top of `loop`; line 181: if cfg!(feature = "log")
IdleLoop ==
  /\ IdleStep("loop")
  /\ iterProc' = 0
  /\ sawWork' = FALSE
  /\ drained' = TRUE
  /\ idlepc' = IF logFeature THEN "read" ELSE "has_work"
  /\ UNCHANGED <<failure, igrant, ichunk, uart, logVars, work>>
  /\ IdleFrame

\* line 182 as a read that is tried again until it returns a grant
IdleReadBlocking ==
  /\ IdleStep("read")
  /\ IF readLen(lq) > 0
     THEN /\ lq' = read(lq)
          /\ igrant' = Grant(readStart(lq), readLen(lq))
          /\ idlepc' = "write"
     ELSE /\ idlepc' = "read"
          /\ UNCHANGED <<lq, igrant>>
  /\ UNCHANGED <<failure, ichunk, uart, iterProc, sawWork, drained, logged,
                 dropped, work>>
  /\ IdleFrame

\* line 182: while let Ok(grant) = LOG_SINK.read()
IdleRead ==
  /\ IdleStep("read")
  /\ IF readLen(lq) > 0
     THEN /\ lq' = read(lq)
          /\ igrant' = Grant(readStart(lq), readLen(lq))
          /\ idlepc' = "write"
     ELSE /\ idlepc' = "has_work"
          /\ UNCHANGED <<lq, igrant>>
  /\ UNCHANGED <<failure, ichunk, uart, iterProc, sawWork, drained, logged,
                 dropped, work>>
  /\ IdleFrame

\* lines 183-185: SERIAL.write(chunk).unwrap() for the next chunk
IdleWrite(ok) ==
  /\ IdleStep("write")
  /\ LET c == chunk(Region(lq, igrant), ichunk) IN
       IF ok
       THEN /\ uart' = uart \o c
            /\ ichunk' = ichunk + Len(c)
            /\ idlepc' = IF ichunk + Len(c) >= igrant.len
                         THEN "release" ELSE "write"
            /\ UNCHANGED failure
       ELSE /\ failure' = "SERIAL.write"
            /\ UNCHANGED <<uart, ichunk, idlepc>>
  /\ UNCHANGED <<igrant, iterProc, sawWork, drained, logVars, work>>
  /\ IdleFrame

\* line 187 releasing only the bytes of the last chunk written
IdleReleaseLastChunk ==
  /\ IdleStep("release")
  /\ lq' = release(lq, Min(ChunkLen, igrant.len))
  /\ igrant' = NoGrant
  /\ ichunk' = 0
  /\ idlepc' = "read"
  /\ UNCHANGED <<failure, uart, iterProc, sawWork, drained, logged, dropped,
                 work>>
  /\ IdleFrame

\* line 187: LOG_SINK.release(grant.buf().len(), grant)
IdleRelease ==
  /\ IdleStep("release")
  /\ lq' = release(lq, igrant.len)
  /\ igrant' = NoGrant
  /\ ichunk' = 0
  /\ idlepc' = "read"
  /\ UNCHANGED <<failure, uart, iterProc, sawWork, drained, logged, dropped,
                 work>>
  /\ IdleFrame

\* line 191: if BLE_R.has_work()
IdleHasWork ==
  /\ IdleStep("has_work")
  /\ sawWork' = (work > 0)
  /\ idlepc' = IF work > 0 THEN "process_one" ELSE "loop"
  /\ UNCHANGED <<failure, igrant, ichunk, uart, iterProc, drained, logVars, work>>
  /\ IdleFrame

\* lines 191-193 as `while BLE_R.has_work() { .. }`
IdleProcessOneAll(ok, n) ==
  /\ IdleStep("process_one")
  /\ work' = work - 1
  /\ iterProc' = iterProc + 1
  /\ drained' = FALSE
  /\ Log(n)
  /\ idlepc' = IF ~ok THEN "unwrap_err"
               ELSE IF work > 1 THEN "process_one" ELSE "loop"
  /\ UNCHANGED <<failure, igrant, ichunk, uart, sawWork>>
  /\ IdleFrame

\* line 192: BLE_R.process_one(): the Responder handles one unit of work
\* and may log a line (n); the call returns Ok or Err
IdleProcessOne(ok, n) ==
  /\ IdleStep("process_one")
  /\ work' = work - 1
  /\ iterProc' = iterProc + 1
  /\ drained' = FALSE
  /\ Log(n)
  /\ idlepc' = IF ok THEN "loop" ELSE "unwrap_err"
  /\ UNCHANGED <<failure, igrant, ichunk, uart, sawWork>>
  /\ IdleFrame

\* line 192 as `let _ = BLE_R.process_one();`: the Err is dropped
IdleUnwrapErrSkipped ==
  /\ IdleStep("unwrap_err")
  /\ idlepc' = "loop"
  /\ UNCHANGED <<failure, igrant, ichunk, uart, iterProc, sawWork, drained,
                 logVars, work>>
  /\ IdleFrame

\* line 192: .unwrap() of the Err that process_one returned: panic
IdleUnwrapErr ==
  /\ IdleStep("unwrap_err")
  /\ failure' = "process_one"
  /\ UNCHANGED <<idlepc, igrant, ichunk, uart, iterProc, sawWork, drained,
                 logVars, work>>
  /\ IdleFrame

\* ------------------------------------------------------------------------
\* Resources named by the task attributes and used by each statement
\* ------------------------------------------------------------------------
\* #[init(resources = [..])], #[interrupt(resources = [..])], #[idle(..)]
ResourceList(ctx) ==
  IF ctx = "init" THEN {"BLE_TX_BUF", "BLE_RX_BUF"}
  ELSE IF ctx \in {"RADIO", "TIMER0"} THEN {"RADIO", "BLE_LL"}
  ELSE IF ctx = "idle" THEN {"LOG_SINK", "SERIAL", "BLE_R"}
  ELSE {}

\* interrupt handlers have the default priority 1, idle has priority 0
Priority(ctx) == IF ctx \in {"RADIO", "TIMER0"} THEN 1 ELSE 0

\* StepUses with has_work() asking the link layer instead of the Responder
StepUsesSharedLL(ctx, pc) ==
  IF ctx = "RADIO" /\ pc = "recv_interrupt" THEN {"RADIO", "BLE_LL"}
  ELSE IF ctx = "RADIO" /\ pc = "configure_interrupt" THEN {"BLE_LL"}
  ELSE IF ctx = "TIMER0" /\ pc = "is_interrupt_pending" THEN {"BLE_LL"}
  ELSE IF ctx = "TIMER0" /\ pc = "clear_interrupt" THEN {"BLE_LL"}
  ELSE IF ctx = "TIMER0" /\ pc = "update" THEN {"BLE_LL", "RADIO"}
  ELSE IF ctx = "TIMER0" /\ pc = "configure_receiver" THEN {"RADIO"}
  ELSE IF ctx = "TIMER0" /\ pc = "configure_interrupt" THEN {"BLE_LL"}
  ELSE IF ctx = "idle" /\ pc = "read" THEN {"LOG_SINK"}
  ELSE IF ctx = "idle" /\ pc = "write" THEN {"SERIAL"}
  ELSE IF ctx = "idle" /\ pc = "release" THEN {"LOG_SINK"}
  ELSE IF ctx = "idle" /\ pc = "has_work" THEN {"BLE_LL"}
  ELSE IF ctx = "idle" /\ pc = "process_one" THEN {"BLE_R"}
  ELSE {}

\* the resources the statement at pc of ctx names
StepUses(ctx, pc) ==
  IF ctx = "RADIO" /\ pc = "recv_interrupt" THEN {"RADIO", "BLE_LL"}
  ELSE IF ctx = "RADIO" /\ pc = "configure_interrupt" THEN {"BLE_LL"}
  ELSE IF ctx = "TIMER0" /\ pc = "is_interrupt_pending" THEN {"BLE_LL"}
  ELSE IF ctx = "TIMER0" /\ pc = "clear_interrupt" THEN {"BLE_LL"}
  ELSE IF ctx = "TIMER0" /\ pc = "update" THEN {"BLE_LL", "RADIO"}
  ELSE IF ctx = "TIMER0" /\ pc = "configure_receiver" THEN {"RADIO"}
  ELSE IF ctx = "TIMER0" /\ pc = "configure_interrupt" THEN {"BLE_LL"}
  ELSE IF ctx = "idle" /\ pc = "read" THEN {"LOG_SINK"}
  ELSE IF ctx = "idle" /\ pc = "write" THEN {"SERIAL"}
  ELSE IF ctx = "idle" /\ pc = "release" THEN {"LOG_SINK"}
  ELSE IF ctx = "idle" /\ pc = "has_work" THEN {"BLE_R"}
  ELSE IF ctx = "idle" /\ pc = "process_one" THEN {"BLE_R"}
  ELSE {}

\* the object stored in each resource slot that holds queue ends
ObjectIn(r) ==
  IF r = "BLE_LL" THEN "LinkLayer"
  ELSE IF r = "BLE_R" THEN "Responder"
  ELSE IF r = "LOG_SINK" THEN "LOG_SINK"
  ELSE "no queue end"

\* the queue ends reachable from the resources a statement names
StepEnds(ctx, pc) ==
  UNION {EndsOf(ObjectIn(r)) : r \in StepUses(ctx, pc)}

\* the contexts that are in the middle of executing: idle once init returned,
\* and the handler that preempted it
Active == (IF unmasked THEN {"idle"} ELSE {}) \cup
          (IF hctx # "none" THEN {hctx} ELSE {})

PcOf(ctx) == IF ctx = "idle" THEN idlepc ELSE hpc

\* ------------------------------------------------------------------------
\* Spec: the application
\* ------------------------------------------------------------------------
InitNext ==
  \/ InitHfclkStart
  \/ InitHfclkWait
  \/ InitTimer
  \/ \E ok \in BOOLEAN : InitSerial(ok)
  \/ InitDevaddr
  \/ InitRadio
  \/ InitLogger
  \/ \E ok \in BOOLEAN : InitQueueTx(ok)
  \/ \E ok \in BOOLEAN : InitQueueRx(ok)
  \/ InitLinkLayer
  \/ InitResponder
  \/ \E ok \in BOOLEAN, d \in Deadlines, n \in LineLens : InitStartAdvertise(ok, d, n)
  \/ InitConfigureInterrupt
  \/ InitPublish
  \/ InitReturn

HandlerNext ==
  \/ RADIOEnter
  \/ \E t \in Readings, d \in Deadlines, cfg \in RadioCfgs, w \in WorkAfter,
        n \in LineLens :
       RADIORecvInterrupt(t, d, cfg, w, n)
  \/ RADIOConfigureInterrupt
  \/ TIMER0Enter
  \/ TIMER0CheckPending
  \/ TIMER0ClearInterrupt
  \/ \E d \in Deadlines, cfg \in RadioCfgs, w \in WorkAfter, n \in LineLens :
       TIMER0Update(d, cfg, w, n)
  \/ TIMER0ConfigureReceiver
  \/ TIMER0ConfigureInterrupt
  \/ HandlerReturn

IdleNext ==
  \/ IdleLoop
  \/ IdleRead
  \/ \E ok \in BOOLEAN : IdleWrite(ok)
  \/ IdleRelease
  \/ IdleHasWork
  \/ \E ok \in BOOLEAN, n \in LineLens : IdleProcessOne(ok, n)
  \/ IdleUnwrapErr

Next ==
  \/ HfclkStarted
  \/ CompareEvent
  \/ InitNext
  \/ HandlerNext
  \/ IdleNext

Spec == Init /\ [][Next]_vars

\* ------------------------------------------------------------------------
\* SpecAddr: the address derivation of init over a set of register contents
\* ------------------------------------------------------------------------
\* DEVICEADDR[0] values
AddrLoValues ==
  {U32(0, 0), U32(13090, 4352), U32(65535, 65535), U32(32768, 1),
   U32(0, 255), U32(4660, 22136)}

\* DEVICEADDR[1] values; the upper half is not part of the address
AddrHiValues ==
  {U32(0, 21828), U32(43981, 21828), U32(65535, 0), U32(0, 65535), U32(1, 258)}

InitSpecAddr ==
  /\ logFeature = TRUE
  /\ InitAppVars
  /\ InitQVars
  /\ ficr \in [lo : AddrLoValues, hi : AddrHiValues, type : {0, 1}]
  /\ device_address = NoAddress
  /\ prev_address = NoAddress

\* lines 95-112 executed on the registers
AddrDerive ==
  /\ prev_address = NoAddress
  /\ prev_address' = device_address
  /\ device_address' = DeviceAddress(ficr)
  /\ UNCHANGED <<ficr, appVars, qVars>>

NextAddr == AddrDerive

SpecAddr == InitSpecAddr /\ [][NextAddr]_vars

\* ------------------------------------------------------------------------
\* SpecQ: producer and consumer of one queue, interleaved call by call
\* ------------------------------------------------------------------------
\* producer: grant(n) with no write grant outstanding
QGrant(n) ==
  /\ ~pgrant.held
  /\ IF grantStart(bq, n) >= 0
     THEN /\ bq' = grant(bq, n)
          /\ pgrant' = Grant(grantStart(bq, n), n)
          /\ qres' = "granted"
     ELSE /\ qres' = "InsufficientSpace"
          /\ UNCHANGED <<bq, pgrant>>
  /\ UNCHANGED <<cgrant, produced, consumed>>
  /\ UNCHANGED <<appVars, addrVars>>

\* producer: commit(used) of the outstanding write grant
QCommit(used) ==
  /\ pgrant.held
  /\ used <= pgrant.len
  /\ produced + used <= MaxBytesQ
  /\ bq' = commit(bq, pgrant, used, Fresh(produced, used))
  /\ produced' = produced + used
  /\ pgrant' = NoGrant
  /\ qres' = "committed"
  /\ UNCHANGED <<cgrant, consumed>>
  /\ UNCHANGED <<appVars, addrVars>>

\* consumer: read() with no read grant outstanding
QRead ==
  /\ ~cgrant.held
  /\ IF readLen(bq) > 0
     THEN /\ bq' = read(bq)
          /\ cgrant' = Grant(readStart(bq), readLen(bq))
          /\ qres' = "read"
     ELSE /\ qres' = "Empty"
          /\ UNCHANGED <<bq, cgrant>>
  /\ UNCHANGED <<pgrant, produced, consumed>>
  /\ UNCHANGED <<appVars, addrVars>>

\* consumer: release(used) of the outstanding read grant
QRelease(used) ==
  /\ cgrant.held
  /\ used <= cgrant.len
  /\ bq' = release(bq, used)
  /\ consumed' = consumed + used
  /\ cgrant' = NoGrant
  /\ qres' = "released"
  /\ UNCHANGED <<pgrant, produced>>
  /\ UNCHANGED <<appVars, addrVars>>

NextQ ==
  \/ \E n \in 1..PayloadQueueCap : QGrant(n)
  \/ \E used \in 0..PayloadQueueCap : QCommit(used)
  \/ QRead
  \/ \E used \in 0..PayloadQueueCap : QRelease(used)

InitSpecQ ==
  /\ logFeature = TRUE
  /\ InitAppVars
  /\ InitAddrVars
  /\ InitQVars

SpecQ == InitSpecQ /\ [][NextQ]_vars

EmptyIdle == ~pgrant.held /\ ~cgrant.held /\ consumed = produced

\* grant(n), commit(n), read(), release(n) in a row on q
WriteThenRead(q, n, data) ==
  LET s  == grantStart(q, n)
      q2 == commit(grant(q, n), Grant(s, n), n, data)
      g  == Grant(readStart(q2), readLen(q2))
      q3 == read(q2)
  IN  /\ s >= 0
      /\ g.len = n
      /\ Region(q3, g) = data
      /\ readLen(release(q3, n)) = 0

HandlerState == <<timerArmed, timerPending, radioCfg, engDeadline, logVars,
                  work, idleVars, initVars, failure>>

\* C1: when TIMER0 finds is_interrupt_pending() false it goes straight to its
\* return having made no other call, and neither that step nor the return
\* changes the pending flag, the armed deadline, the receiver configuration
\* or the engine.
C1_TimerNoOpWhenNotPending ==
  /\ [][(hctx = "TIMER0" /\ hpc = "is_interrupt_pending" /\ ~timerPending
           /\ hpc' # hpc)
        => (hpc' = "ret" /\ UNCHANGED HandlerState)]_vars
  /\ [][(hctx = "TIMER0" /\ hpc = "ret" /\ Len(htrace) = 1 /\ hctx' # hctx)
        => (hctx' = "none" /\ UNCHANGED HandlerState)]_vars
  /\ [](hctx = "TIMER0" /\ hpc = "ret" /\ htrace[1].ret = 0
        => Len(htrace) = 1)

\* TIMER0 is about to return having found no pending event while the timer
\* was armed
C1_Witness ==
  /\ hctx = "TIMER0"
  /\ hpc = "ret"
  /\ htrace = <<Call("is_interrupt_pending", -1, 0, "none")>>
  /\ timerArmed >= 0
  /\ ~timerPending

\* C2: an iteration of the idle loop calls process_one at most once, exactly
\* once when has_work() was true at the check and not at all otherwise, and
\* every process_one call is preceded by a pass through the drain step since
\* the previous one.
C2_OneUnitPerIteration ==
  /\ iterProc <= 1
  /\ idlepc = "loop" => iterProc = (IF sawWork THEN 1 ELSE 0)
  /\ (idlepc = "process_one" /\ ~aborted) => (drained /\ iterProc = 0 /\ sawWork)

\* an iteration ended after one process_one with work still pending
C2_Witness ==
  /\ idlepc = "loop"
  /\ iterProc = 1
  /\ work > 0
  /\ ~aborted

\* C5: a handler or the idle task is executing only after init has written
\* all five resource slots and returned.
C5_NoTaskBeforePublish ==
  (hctx # "none" \/ idlepc # "loop" \/ drained) =>
     (published = Resources /\ ipc = "done")

\* the compare event is already pending, the timer being armed, while init
\* is still writing the resource slots, and no handler runs
C5_Witness ==
  /\ ipc = "publish"
  /\ published # {}
  /\ published # Resources
  /\ timerArmed >= 0
  /\ timerPending
  /\ hctx = "none"

\* C6: every statement uses only resources of its task's list, RADIO and
\* BLE_LL are used by the handlers only, LOG_SINK, SERIAL and BLE_R by idle
\* only, and two contexts of different priority that are both in the middle
\* of executing never use the same resource.
C6_OneTierPerResource ==
  /\ \A c \in Active :
       /\ StepUses(c, PcOf(c)) \subseteq ResourceList(c)
       /\ StepUses(c, PcOf(c)) \cap {"RADIO", "BLE_LL"} # {} => Priority(c) = 1
       /\ StepUses(c, PcOf(c)) \cap {"LOG_SINK", "SERIAL", "BLE_R"} # {}
            => Priority(c) = 0
  /\ \A c1 \in Active, c2 \in Active :
       Priority(c1) # Priority(c2)
         => StepUses(c1, PcOf(c1)) \cap StepUses(c2, PcOf(c2)) = {}

\* TIMER0 calls update, using BLE_LL and RADIO, having preempted idle in
\* has_work(), which uses BLE_R
C6_Witness ==
  /\ hctx = "TIMER0"
  /\ hpc = "update"
  /\ idlepc = "has_work"

CallsOf(op) == {i \in DOMAIN htrace : htrace[i].op = op}

\* C8: when TIMER0 returns after finding the event pending it has called
\* update exactly once and configure_interrupt exactly once, after update,
\* with the next_update that this update returned, which is the armed
\* deadline.
C8_RearmWithReturnedDeadline ==
  (hctx = "TIMER0" /\ hpc = "ret" /\ htrace[1].ret = 1) =>
     /\ Cardinality(CallsOf("update")) = 1
     /\ Cardinality(CallsOf("configure_interrupt")) = 1
     /\ \A u \in CallsOf("update"), a \in CallsOf("configure_interrupt") :
          /\ u < a
          /\ htrace[a].arg = htrace[u].ret
          /\ timerArmed = htrace[u].ret
          /\ engDeadline = htrace[u].ret

\* TIMER0 is about to return after a pending event
C8_Witness ==
  /\ hctx = "TIMER0"
  /\ hpc = "ret"
  /\ Len(htrace) = 5
  /\ htrace[3].op = "update"
  /\ timerArmed = htrace[3].ret

\* log bytes idle has written to the UART and released from the queue
Released == Len(uart) - ichunk

\* C9: a log line that does not fit is dropped without touching the queue or
\* the UART output, and a handler that logged it carries on; the bytes idle
\* has written to the UART are the enqueued bytes in enqueue order, and the
\* bytes still in the queue are exactly the enqueued bytes that follow them.
C9_UartIsEnqueuedSequence ==
  /\ [](/\ Len(uart) <= logged
        /\ uart = Fresh(0, Len(uart))
        /\ Released >= 0
        /\ Contents(lq) = Fresh(Released, logged - Released))
  /\ [][(dropped' /\ ~dropped) =>
          /\ lq' = lq /\ logged' = logged /\ uart' = uart
          /\ hctx # "none" => (~aborted' /\ hpc' # hpc)]_vars

\* a line was dropped, the queue wrapped, and idle has written every enqueued
\* byte to the UART
C9_Witness ==
  /\ dropped
  /\ logged > LogCap
  /\ Len(uart) = logged
  /\ idlepc = "has_work"
  /\ ~aborted

\* ------------------------------------------------------------------------
\* Properties of the address derivation (SpecAddr)
\* ------------------------------------------------------------------------
\* C10: the address bytes are bytes: bytes 0..3 recombine little-endian to
\* DEVICEADDR[0], bytes 4..5 recombine little-endian to the low 16 bits of
\* DEVICEADDR[1] whatever its upper 16 bits, the kind is Public exactly when
\* the type bit reads public and Random otherwise, and a second derivation
\* from the same registers gives the same address.
C10_AddressLittleEndian ==
  device_address # NoAddress =>
    LET b == device_address.bytes IN
      /\ Len(b) = 6
      /\ \A i \in 1..6 : b[i] \in 0..255
      /\ b[1] + 256 * b[2] = ficr.lo.l
      /\ b[3] + 256 * b[4] = ficr.lo.h
      /\ b[5] + 256 * b[6] = ficr.hi.l
      /\ device_address.kind = "Public" <=> ficr.type = 0
      /\ device_address.kind = "Random" <=> ficr.type = 1
      /\ prev_address # NoAddress => prev_address = device_address

\* derived twice from registers whose bytes all differ, with the upper half
\* of DEVICEADDR[1] set
C10_Witness ==
  /\ prev_address # NoAddress
  /\ device_address = [bytes |-> <<120, 86, 52, 18, 68, 85>>, kind |-> "Public"]
  /\ ficr.hi.h = 43981

\* ------------------------------------------------------------------------
\* C11: a construction step of init that fails (the UART banner, a payload
\* queue allocation, start_advertise) stops the process at that step:
\* init never moves past a step whose call failed, the timer stays
\* unarmed, no resource slot is written, interrupts stay masked, no
\* handler and no idle step has run, and nothing happens afterwards.
\* ------------------------------------------------------------------------
InitFailurePoints == {"serial", "queue_tx", "queue_rx", "start_advertise"}

InitAborted == failure \in InitFailurePoints

C11_InitFailureAborts ==
  /\ [](InitAborted =>
          /\ ipc = failure
          /\ timerArmed = -1 /\ ~timerPending
          /\ published = {}
          /\ ~unmasked
          /\ hctx = "none" /\ hpc = "none"
          /\ idlepc = "loop" /\ ~drained /\ uart = <<>>)
  /\ [](ipc = "queue_rx" => holder["tx"] = "init" /\ holder["tx_cons"] = "init")
  /\ [](ipc = "ll_new" => holder["rx"] = "init" /\ holder["rx_prod"] = "init")
  /\ [](ipc = "configure_interrupt" => hcmd.next_update \in Deadlines)
  /\ [][InitAborted => UNCHANGED vars]_vars

C11_Witness ==
  /\ failure = "start_advertise"
  /\ holder["tx_cons"] = "LinkLayer"
  /\ timerArmed = -1

\* ------------------------------------------------------------------------
\* C12: when process_one has returned an error, the only step idle can take
\* is the panic: idle never leaves that point (the error is not skipped and
\* the call is not retried), writes nothing more to the UART and handles no
\* more work; once the process has panicked nothing happens any more.
\* ------------------------------------------------------------------------
C12_ProcessErrorAborts ==
  /\ [][idlepc = "unwrap_err" =>
          /\ idlepc' = idlepc
          /\ UNCHANGED <<uart, iterProc, igrant, ichunk>>
          /\ work' >= work
          /\ (hctx = "none" /\ UNCHANGED <<hctx, timerPending>>
                => failure' = "process_one")]_vars
  /\ [](failure = "process_one" => idlepc = "unwrap_err" /\ hctx = "none")
  /\ [][failure = "process_one" => UNCHANGED vars]_vars

C12_Witness ==
  /\ failure = "process_one"
  /\ work > 0

\* ------------------------------------------------------------------------
\* C13: once init has returned, the process panics only on a Responder
\* processing error in idle: never inside a handler and never in idle's
\* log drain step (LOG_SINK.read, SERIAL.write, LOG_SINK.release).
\* Line 184 unwraps the result of SERIAL.write, so a UART error in the
\* drain step panics too: the statement does not hold of the code.
\* ------------------------------------------------------------------------
C13_OnlyResponderFailureSurfaces ==
  (unmasked /\ aborted) =>
     /\ failure = "process_one"
     /\ hctx = "none"
     /\ idlepc \notin {"read", "write", "release"}

\* ------------------------------------------------------------------------
\* C14: a handler that has started runs to its return before any handler
\* starts: the executing handler never changes to the other one and is
\* never entered again, and idle takes no step (so reads nothing of the
\* engine or the radio) while a handler is between two of its steps.
\* ------------------------------------------------------------------------
HandlerEntry == {"recv_interrupt", "is_interrupt_pending"}

C14_HandlersRunToCompletion ==
  /\ [](hctx = "none" <=> hpc = "none")
  /\ [][hctx # "none" =>
          /\ hctx' \in {hctx, "none"}
          /\ (hctx' = hctx => hpc' \notin HandlerEntry \/ hpc' = hpc)
          /\ (hctx' = "none" => hpc = "ret")
          /\ UNCHANGED idleVars]_vars
  /\ [][hctx = "none" /\ hctx' # "none" =>
          hpc' \in HandlerEntry /\ htrace' = <<>>]_vars

C14_Witness ==
  /\ hctx = "RADIO"
  /\ hpc = "configure_interrupt"
  /\ timerPending
  /\ idlepc = "write"

\* the names of the calls the executing handler has made, in order
OpsOf(tr) == [i \in DOMAIN tr |-> tr[i].op]

IsPrefix(a, b) == Len(a) <= Len(b) /\ a = SubSeq(b, 1, Len(a))

\* the calls of TIMER0 when the event is pending (lines 162-174)
TIMER0Calls ==
  <<"is_interrupt_pending", "clear_interrupt", "update", "configure_receiver",
    "configure_interrupt">>

\* ------------------------------------------------------------------------
\* C15: a TIMER0 execution that finds the event pending clears the flag,
\* calls update, applies the radio configuration update returned and arms
\* the timer with the deadline update returned: in this order, each once,
\* the configuration and the deadline being those of that one update call.
\* ------------------------------------------------------------------------
C15_TimerSequence ==
  /\ [](hctx = "TIMER0" => IsPrefix(OpsOf(htrace), TIMER0Calls))
  /\ [](hctx = "TIMER0" /\ hpc = "ret" /\ htrace[1].ret = 1 =>
          /\ OpsOf(htrace) = TIMER0Calls
          /\ htrace[4].radio = htrace[3].radio
          /\ htrace[5].arg = htrace[3].ret
          /\ radioCfg = htrace[3].radio
          /\ timerArmed = htrace[3].ret)
  /\ [][hctx = "TIMER0" /\ hpc = "clear_interrupt" /\ hpc' # hpc =>
          ~timerPending' /\ hpc' = "update"]_vars
  /\ [][hctx = "TIMER0" /\ hpc = "update" /\ hpc' # hpc =>
          hcmd' = [radio |-> htrace'[3].radio, next_update |-> htrace'[3].ret]]_vars
  /\ [][hctx = "TIMER0" /\ hpc = "configure_receiver" /\ hpc' # hpc =>
          radioCfg' = htrace[3].radio /\ UNCHANGED timerArmed]_vars

\* TIMER0 is about to return after a pending event whose update changed the
\* receiver configuration
C15_Witness ==
  /\ hctx = "TIMER0"
  /\ hpc = "ret"
  /\ OpsOf(htrace) = TIMER0Calls
  /\ htrace[3].radio = "rx_data"
  /\ radioCfg = "rx_data"
  /\ ~timerPending

\* the calls of RADIO (lines 154-157)
RADIOCalls == <<"now", "recv_interrupt", "configure_interrupt">>

\* ------------------------------------------------------------------------
\* C16: a RADIO execution reads the timer's now, calls recv_interrupt once
\* with that reading, and arms the timer once with the deadline that call
\* returned.  It does nothing else: it uses only the radio and the engine,
\* leaves the UART, the consumer side of the log queue and idle's position
\* alone, handles no Responder work and never clears the pending flag.
\* ------------------------------------------------------------------------
C16_RadioSequence ==
  /\ [](hctx = "RADIO" =>
          /\ IsPrefix(OpsOf(htrace), RADIOCalls)
          /\ StepUses("RADIO", hpc) \subseteq {"RADIO", "BLE_LL"})
  /\ [](hctx = "RADIO" /\ hpc = "ret" =>
          /\ OpsOf(htrace) = RADIOCalls
          /\ htrace[2].arg = htrace[1].ret
          /\ htrace[3].arg = htrace[2].ret
          /\ timerArmed = htrace[2].ret
          /\ engDeadline = htrace[2].ret)
  /\ [][hctx = "RADIO" =>
          /\ UNCHANGED <<uart, idlepc, igrant, ichunk, iterProc>>
          /\ lq'.read = lq.read
          /\ work' >= work
          /\ (timerPending => timerPending')
          /\ (hpc = "recv_interrupt" => UNCHANGED timerArmed)]_vars

\* RADIO is about to return with a deadline that differs from the time it
\* read, while the timer event is pending
C16_Witness ==
  /\ hctx = "RADIO"
  /\ hpc = "ret"
  /\ htrace[1].ret # htrace[2].ret
  /\ timerArmed = htrace[2].ret
  /\ timerPending

\* the last n bytes written to the UART
LastWritten(n) == SubSeq(uart, Len(uart) - n + 1, Len(uart))

\* ------------------------------------------------------------------------
\* C17: in idle's drain step every write to the UART is the next chunk of
\* the grant, at most ChunkLen bytes, the chunks following one another in
\* order; when the grant is released it has been written whole and exactly
\* its length is released; after a release idle reads again, and it leaves
\* the drain only when read reports no data.
\* ------------------------------------------------------------------------
C17_DrainWholeGrant ==
  /\ [](idlepc = "write" =>
          /\ igrant.held /\ igrant.len > 0 /\ ichunk < igrant.len
          /\ LastWritten(ichunk) = SubSeq(Region(lq, igrant), 1, ichunk))
  /\ [](idlepc = "release" =>
          /\ ichunk = igrant.len
          /\ LastWritten(igrant.len) = Region(lq, igrant))
  /\ [][uart' # uart =>
          /\ idlepc = "write"
          /\ Len(uart') - Len(uart) \in 1..ChunkLen
          /\ ichunk' = ichunk + (Len(uart') - Len(uart))
          /\ uart' = uart \o SubSeq(Region(lq, igrant), ichunk + 1, ichunk')
          /\ idlepc' = IF ichunk' = igrant.len THEN "release" ELSE "write"]_vars
  /\ [][idlepc = "release" /\ idlepc' # idlepc =>
          /\ lq' = release(lq, igrant.len)
          /\ idlepc' = "read"]_vars
  /\ [][idlepc = "read" /\ idlepc' # idlepc =>
          IF readLen(lq) > 0
          THEN idlepc' = "write" /\ igrant' = Grant(readStart(lq), readLen(lq))
               /\ ichunk' = 0
          ELSE idlepc' = "has_work" /\ lq' = lq]_vars

\* idle is about to release a grant that took more than one write
C17_Witness ==
  /\ idlepc = "release"
  /\ igrant.len > ChunkLen
  /\ LastWritten(igrant.len) = Region(lq, igrant)

\* the positions of init after line 143
InitArmed == {"publish", "return", "done"}

\* ------------------------------------------------------------------------
\* C18: init arms the timer once: the timer is unarmed until line 143, is
\* armed there with the deadline start_advertise returned, and keeps that
\* deadline until init returns.  At that point the radio, the engine, both
\* payload queues and the Responder (holding tx and rx) exist and no
\* resource slot is written yet.  start_advertise is handed tx_cons and
\* rx_prod, which init held until then.
\* ------------------------------------------------------------------------
C18_InitArmsOnce ==
  /\ [](~unmasked /\ ipc \notin InitArmed => timerArmed = -1)
  /\ [](~unmasked /\ ipc \in InitArmed =>
          timerArmed = engDeadline /\ timerArmed \in Deadlines)
  /\ [][~unmasked /\ timerArmed' # timerArmed =>
          /\ ipc = "configure_interrupt" /\ ipc' = "publish"
          /\ timerArmed = -1
          /\ timerArmed' = engDeadline
          /\ published = {}
          /\ holder["tx"] = "Responder" /\ holder["rx"] = "Responder"
          /\ holder["tx_cons"] = "LinkLayer" /\ holder["rx_prod"] = "LinkLayer"
          /\ device_address # NoAddress]_vars
  /\ [][published' # published => timerArmed \in Deadlines]_vars
  /\ [][ipc = "start_advertise" /\ (ipc' # ipc \/ aborted') =>
          /\ holder["tx_cons"] = "init" /\ holder["rx_prod"] = "init"
          /\ holder' = [holder EXCEPT !["tx_cons"] = "LinkLayer",
                                      !["rx_prod"] = "LinkLayer"]]_vars

\* init has armed the timer with the deadline start_advertise returned and
\* has not published anything yet
C18_Witness ==
  /\ ipc = "publish"
  /\ published = {}
  /\ timerArmed = 1
  /\ engDeadline = 1
  /\ holder["tx_cons"] = "LinkLayer"

\* ------------------------------------------------------------------------
\* C19: whenever init has returned and no handler is executing, the deadline
\* the timer is armed with is the one the most recent engine call
\* (start_advertise, recv_interrupt, update) returned; every re-arm writes
\* the deadline of the latest engine call, never an older one.
\* ------------------------------------------------------------------------
C19_ArmedIsLatestDeadline ==
  /\ [](unmasked /\ hctx = "none" =>
          timerArmed = engDeadline /\ timerArmed \in Deadlines)
  /\ [][timerArmed' # timerArmed =>
          timerArmed' = engDeadline /\ engDeadline' = engDeadline]_vars
  /\ [][hctx # "none" /\ engDeadline' # engDeadline =>
          hpc \in {"recv_interrupt", "update"}
          /\ hcmd'.next_update = engDeadline']_vars

\* both handlers have run and returned, and the timer is armed with the
\* deadline of the last engine call
C19_Witness ==
  /\ unmasked
  /\ hctx = "none"
  /\ radioCfg = "rx_data"
  /\ work = MaxWork
  /\ timerArmed = 0
  /\ engDeadline = 0
  /\ timerPending

\* ------------------------------------------------------------------------
\* Progress of idle.  The handlers run to completion (they are not
\* preempted by each other or by idle), so for idle a handler execution is
\* one step taken between two of its own.
\* ------------------------------------------------------------------------
\* lines 152-158: a whole execution of RADIO
RADIOHandler(d, cfg, w, n) ==
  /\ MayDispatch
  /\ engDeadline' = d
  /\ radioCfg' = cfg
  /\ work' = w
  /\ Log(n)
  /\ timerArmed' = d
  /\ UNCHANGED <<timerPending, handlerVars>>
  /\ HandlerFrame

\* lines 160-175: a whole execution of TIMER0 that finds the event pending
\* (one that does not returns at once and changes nothing)
TIMER0Handler(d, cfg, w, n) ==
  /\ MayDispatch
  /\ timerPending
  /\ timerPending' = FALSE
  /\ engDeadline' = d
  /\ work' = w
  /\ Log(n)
  /\ radioCfg' = cfg
  /\ timerArmed' = d
  /\ UNCHANGED handlerVars
  /\ HandlerFrame

NextLive ==
  \/ HfclkStarted
  \/ CompareEvent
  \/ InitNext
  \/ \E d \in Deadlines, cfg \in RadioCfgs, w \in WorkAfter, n \in LineLens :
       RADIOHandler(d, cfg, w, n)
  \/ \E d \in Deadlines, cfg \in RadioCfgs, w \in WorkAfter, n \in LineLens :
       TIMER0Handler(d, cfg, w, n)
  \/ IdleNext

\* Scheduling (cortex-m-rtfm on one core): init runs on from reset; idle
\* runs whenever no handler is executing, and interrupts are spaced by the
\* radio protocol's timing, so idle keeps getting steps between them.
\* Nothing is assumed of how often the interrupts arrive.
Fairness ==
  /\ WF_vars(InitNext)
  /\ SF_vars(IdleNext)

SpecLive == Init /\ [][NextLive]_vars /\ Fairness

\* the drain loop is left, every committed log byte reaches the UART, and
\* pending Responder work gets a process_one call in an iteration of idle
DrainPcs == {"read", "write", "release"}

IdleProgress ==
  /\ (idlepc \in DrainPcs) ~> (idlepc = "has_work")
  /\ \A k \in 1..MaxLogBytes : (logged >= k) ~> (Len(uart) >= k)
  /\ (work > 0 /\ iterProc = 0) ~> (iterProc = 1)

====
